---- MODULE Spec2Model ----
(***************************************************************************)
(* Streaming proxy of File-to-stream: the session pool of bot.py, the      *)
(* /dl handlers of webserver.py (stream_handler) and app.py (stream_media) *)
(* and the chunk generator ByteStreamer.yield_file.                        *)
(*                                                                         *)
(* Strings are sequences of one-character strings.  A chunk of the stored  *)
(* file is the interval <<lo, hi>> of file positions lo .. hi-1 it holds.  *)
(***************************************************************************)
EXTENDS Integers, Sequences, FiniteSets, TLC

(* ------------------------------ bounds -------------------------------- *)

\* auxiliary MULTI_TOKEN clients found in the environment
NumTokens == 2
\* concurrent /dl requests of specification Spec
NumRequests == 2
\* the stored file holds at most MaxChunks full chunks
MaxChunks == 3

(* ------------------------- program constants -------------------------- *)

chunk_size == 1024 * 1024

\* the datacenter of the pool clients (client.storage.dc_id()) and another
HomeDC == "dc_home"

DCs == {"dc_home", "dc_other"}

(* ------------------------- strings and numbers ------------------------ *)

Digits == <<"0", "1", "2", "3", "4", "5", "6", "7", "8", "9">>

DigitSet == {Digits[i] : i \in 1..10}

DigitVal(c) == (CHOOSE i \in 1..10 : Digits[i] = c) - 1

RECURSIVE FmtNat(_)
FmtNat(n) == IF n < 10 THEN <<Digits[n + 1]>>
             ELSE FmtNat(n \div 10) \o <<Digits[(n % 10) + 1]>>

\* str(n) / f"{n}"
Str(n) == IF n < 0 THEN <<"-">> \o FmtNat(0 - n) ELSE FmtNat(n)

\* int(s) raises ValueError unless s is a decimal numeral (the "-" never
\* reaches int(): split("-") has removed it)
IsNumeral(s) == Len(s) > 0 /\ \A i \in 1..Len(s) : s[i] \in DigitSet

RECURSIVE IntOf(_)
IntOf(s) == IF Len(s) = 0 THEN 0
            ELSE 10 * IntOf(SubSeq(s, 1, Len(s) - 1)) + DigitVal(s[Len(s)])

BytesEq == <<"b", "y", "t", "e", "s", "=">>

StartsWith(s, p) == Len(s) >= Len(p) /\ SubSeq(s, 1, Len(p)) = p

\* s.replace("bytes=", "")
RECURSIVE RemoveBytesEq(_)
RemoveBytesEq(s) ==
    IF Len(s) = 0 THEN <<>>
    ELSE IF StartsWith(s, BytesEq)
         THEN RemoveBytesEq(SubSeq(s, Len(BytesEq) + 1, Len(s)))
         ELSE <<Head(s)>> \o RemoveBytesEq(Tail(s))

\* s.split("-")
RECURSIVE SplitDash(_)
SplitDash(s) ==
    IF \E i \in 1..Len(s) : s[i] = "-"
    THEN LET i == CHOOSE k \in 1..Len(s) :
                     s[k] = "-" /\ \A j \in 1..(k - 1) : s[j] # "-"
         IN <<SubSeq(s, 1, i - 1)>> \o SplitDash(SubSeq(s, i + 1, Len(s)))
    ELSE <<s>>

Min(a, b) == IF a < b THEN a ELSE b

Max(a, b) == IF a > b THEN a ELSE b

\* math.ceil(a / b) for b > 0 (a / 2^20 is exact in floating point)
Ceil(a, b) == 0 - ((0 - a) \div b)

(* ------------------------------ inputs -------------------------------- *)

\* request.headers.get("Range", 0): the default 0 is [given |-> FALSE]
NoRange == [given |-> FALSE, text |-> <<>>]

Header(text) == [given |-> TRUE, text |-> text]

\* "bytes=<a>-<b>" and "bytes=<a>-"
RangeHeader(a, b) == Header(BytesEq \o Str(a) \o <<"-">> \o Str(b))

OpenRangeHeader(a) == Header(BytesEq \o Str(a) \o <<"-">>)

\* truth value of the header in `if range_header:`
Truthy(h) == h.given /\ Len(h.text) > 0

\* byte positions next to the chunk boundaries of a file of at most k chunks
Positions(k) ==
    {p \in {c * chunk_size + d : c \in 0..k, d \in {0 - 1, 0}} :
        p >= 0 /\ p <= k * chunk_size}

\* the message ids a request can name: the stored media message, a text
\* message without media, a deleted (empty) message
MsgIds == {"media", "text", "deleted"}

(* --------------------------- the /dl handler --------------------------- *)

Impls == {"webserver", "app"}

\* range_header.replace("bytes=", "").split("-") unpacked into two names,
\* int() of the first and, when not empty, of the second
ParseRangeText(text, file_size) ==
    LET parts == SplitDash(RemoveBytesEq(text))
    IN  IF Len(parts) # 2 \/ ~IsNumeral(parts[1])
        THEN [raised |-> "ValueError", from_bytes |-> 0, until_bytes |-> 0]
        ELSE IF Len(parts[2]) = 0
        THEN [raised |-> "none", from_bytes |-> IntOf(parts[1]),
              until_bytes |-> file_size - 1]
        ELSE IF ~IsNumeral(parts[2])
        THEN [raised |-> "ValueError", from_bytes |-> IntOf(parts[1]),
              until_bytes |-> file_size - 1]
        ELSE [raised |-> "none", from_bytes |-> IntOf(parts[1]),
              until_bytes |-> IntOf(parts[2])]

\* webserver.py: the whole parse is under `if range_header:`
stream_handler_range(h, file_size) ==
    IF Truthy(h) THEN ParseRangeText(h.text, file_size)
    ELSE [raised |-> "none", from_bytes |-> 0, until_bytes |-> file_size - 1]

\* app.py: `if ubs:` is outside `if rh:`, so ubs is unbound without a header
stream_media_range(h, file_size) ==
    IF Truthy(h) THEN ParseRangeText(h.text, file_size)
    ELSE [raised |-> "UnboundLocalError", from_bytes |-> 0,
          until_bytes |-> file_size - 1]

ParseRange(impl, h, file_size) ==
    IF impl = "webserver" THEN stream_handler_range(h, file_size)
    ELSE stream_media_range(h, file_size)

\* a handler without the 416 test
RangeNotSatisfiable_Never(from_bytes, until_bytes, file_size) == FALSE

\* if (until_bytes >= file_size) or (from_bytes < 0): raise HTTPException(416)
RangeNotSatisfiable(from_bytes, until_bytes, file_size) ==
    (until_bytes >= file_size) \/ (from_bytes < 0)

\* webserver.py: from_bytes - (from_bytes % chunk_size);
\* app.py: (fb // cs) * cs
PlanOffset(impl, from_bytes) ==
    IF impl = "webserver" THEN from_bytes - (from_bytes % chunk_size)
    ELSE (from_bytes \div chunk_size) * chunk_size

\* the last cut without its + 1
LastPartCut_NoPlusOne(until_bytes) == until_bytes % chunk_size

LastPartCut(until_bytes) == (until_bytes % chunk_size) + 1

PartCount(req_length) == Ceil(req_length, chunk_size)

Plan(impl, from_bytes, until_bytes) ==
    LET off == PlanOffset(impl, from_bytes)
    IN  [offset |-> off,
         first_part_cut |-> from_bytes - off,
         last_part_cut |-> LastPartCut(until_bytes),
         part_count |-> PartCount(until_bytes - from_bytes + 1)]

NoPlan == [offset |-> 0, first_part_cut |-> 0, last_part_cut |-> 0,
           part_count |-> 0]

\* the status code left at its default
SuccessStatus_Always200(h) == 200

\* 206 if range_header else 200
SuccessStatus(h) == IF Truthy(h) THEN 206 ELSE 200

\* f"bytes {from_bytes}-{until_bytes}/{file_size}"
ContentRangeText(from_bytes, until_bytes, file_size) ==
    <<"b", "y", "t", "e", "s", " ">> \o Str(from_bytes) \o <<"-">>
        \o Str(until_bytes) \o <<"/">> \o Str(file_size)

\* webserver.py always sets Content-Range, app.py only `if rh:`
ContentRange(impl, h, from_bytes, until_bytes, file_size) ==
    IF impl = "webserver" \/ Truthy(h)
    THEN ContentRangeText(from_bytes, until_bytes, file_size)
    ELSE <<>>

\* the handler without its `except FileNotFoundError:` clause
ExceptStatus_All500(raised) == 500

\* the except clauses of the handler: FileNotFoundError -> 404, every other
\* Exception (HTTPException(416) is one) -> 500.  In webserver.py the second
\* clause itself fails on the unimported `traceback`; the server answers an
\* unhandled exception with 500 as well.
ExceptStatus(raised) == IF raised = "FileNotFoundError" THEN 404 ELSE 500

\* `not (message.video or message.document or message.audio) or message.empty`
NoMedia(msg) == msg \in {"text", "deleted"}

\* The handler from the return of get_messages to its response.
\* got = "raise": get_messages raised; otherwise the message named msg_id.
Respond(impl, h, got, msg, file) ==
    LET none == [raised |-> "none", status |-> 0, from_bytes |-> 0,
                 until_bytes |-> 0, plan |-> NoPlan, content_length |-> 0,
                 content_range |-> <<>>]
        fail(e) == [none EXCEPT !.raised = e, !.status = ExceptStatus(e)]
        rng == ParseRange(impl, h, file.file_size)
    IN  IF got = "raise" THEN fail("RPCError")
        ELSE IF NoMedia(msg) THEN fail("FileNotFoundError")
        ELSE IF rng.raised # "none" THEN fail(rng.raised)
        ELSE IF RangeNotSatisfiable(rng.from_bytes, rng.until_bytes,
                                    file.file_size)
        THEN [fail("HTTPException416") EXCEPT
                 !.from_bytes = rng.from_bytes,
                 !.until_bytes = rng.until_bytes]
        ELSE [raised |-> "none",
              status |-> SuccessStatus(h),
              from_bytes |-> rng.from_bytes,
              until_bytes |-> rng.until_bytes,
              plan |-> Plan(impl, rng.from_bytes, rng.until_bytes),
              content_length |-> rng.until_bytes - rng.from_bytes + 1,
              content_range |-> ContentRange(impl, h, rng.from_bytes,
                                   rng.until_bytes, file.file_size)]

(* ------------------------------- state -------------------------------- *)

VARIABLES
    impl,              \* which server runs: webserver.py or app.py
    phase,             \* "boot", "tokens" (initialize_clients loop), "serving"
    next_token,        \* the client id initialize_clients starts next
    media,             \* the media message of the storage channel
    multi_clients,     \* keys of bot.multi_clients (a client is its id)
    work_loads_order,  \* keys of work_loads in insertion order
    work_loads,        \* work_loads: id -> load counter
    class_cache,       \* clients with a cached ByteStreamer
    media_sessions,    \* client.media_sessions: client -> dc -> session
    create_calls,      \* calls of the session-creation capability so far
    pc,                \* request -> position of its handler / generator
    req,               \* request -> header, message id, selected index
    resp,              \* request -> what the handler answered
    gen                \* request -> frame of its yield_file generator

pool == <<multi_clients, work_loads_order, work_loads>>

vars == <<impl, phase, next_token, media, multi_clients, work_loads_order,
          work_loads, class_cache, media_sessions, create_calls, pc, req,
          resp, gen>>

ClientIds == 0..NumTokens

Requests == 1..NumRequests

NoSession == [kind |-> "none", n |-> 0]

MainSession == [kind |-> "main", n |-> 0]

NoResponse == [raised |-> "none", status |-> 0, from_bytes |-> 0,
               until_bytes |-> 0, plan |-> NoPlan, content_length |-> 0,
               content_range |-> <<>>]

NoFrame == [media_session |-> NoSession, offset |-> 0, current_part |-> 0,
            fetched |-> <<>>, yielded |-> <<>>, all_full |-> TRUE,
            load_before |-> 0, exit_from |-> "none"]

\* file sizes next to the chunk boundaries, up to k chunks
FileSizes(k) ==
    {n \in {c * chunk_size + d : c \in 0..k, d \in {0, 1}} :
        n <= k * chunk_size}

InitWith(sizes) ==
    /\ impl \in Impls
    /\ phase = "boot"
    /\ next_token = 1
    /\ media \in [file_size : sizes, dc_id : DCs]
    /\ multi_clients = {}
    /\ work_loads_order = <<>>
    /\ work_loads = <<>>
    /\ class_cache = {}
    /\ media_sessions = [c \in ClientIds |-> [d \in DCs |-> NoSession]]
    /\ create_calls = 0
    /\ pc = [r \in Requests |-> "idle"]
    /\ req = [r \in Requests |->
                 [range_header |-> NoRange, msg_id |-> "media", index |-> 0]]
    /\ resp = [r \in Requests |-> NoResponse]
    /\ gen = [r \in Requests |-> NoFrame]

(* ------------------------------ startup ------------------------------- *)

\* work_loads[id] = 0; multi_clients[id] = client
Register(id) ==
    /\ multi_clients' = multi_clients \cup {id}
    /\ work_loads_order' =
           IF id \in DOMAIN work_loads THEN work_loads_order
           ELSE Append(work_loads_order, id)
    /\ work_loads' = [k \in DOMAIN work_loads \cup {id} |->
                         IF k = id THEN 0 ELSE work_loads[k]]

requests == <<class_cache, media_sessions, create_calls, pc, req, resp, gen>>

\* webserver.py lifespan -> initialize_clients up to the token loop: the main
\* bot is registered; a failed ping or an empty token list ends startup
initialize_clients ==
    /\ impl = "webserver" /\ phase = "boot"
    /\ Register(0)
    /\ \E ping_ok \in BOOLEAN :
           phase' = IF ping_ok /\ NumTokens >= 1 THEN "tokens" ELSE "serving"
    /\ UNCHANGED <<impl, next_token, media, requests>>

\* one turn of `for i, token in all_tokens.items(): await start_client(i, token)`
start_client ==
    /\ phase = "tokens"
    /\ \E started \in BOOLEAN :
           IF started THEN Register(next_token) ELSE UNCHANGED pool
    /\ next_token' = next_token + 1
    /\ phase' = IF next_token >= NumTokens THEN "serving" ELSE "tokens"
    /\ UNCHANGED <<impl, media, requests>>

\* app.py main(): multi_clients[0] = bot; work_loads[0] = 0; server.serve()
main ==
    /\ impl = "app" /\ phase = "boot"
    /\ Register(0)
    /\ phase' = "serving"
    /\ UNCHANGED <<impl, next_token, media, requests>>

\* app.py's module-level `app` served by an ASGI server that imports it
\* (`uvicorn app:app`): main() never runs and the pool stays empty
serve_app ==
    /\ impl = "app" /\ phase = "boot"
    /\ phase' = "serving"
    /\ UNCHANGED <<impl, next_token, media, pool, requests>>

(* ------------------------- session selection -------------------------- *)

\* min(work_loads, default=0) without the key function: the smallest key
LeastLoaded_NoKey(order, loads) ==
    IF Len(order) = 0 THEN 0
    ELSE order[CHOOSE k \in 1..Len(order) :
                   \A j \in 1..Len(order) : order[k] <= order[j]]

\* min(work_loads, key=work_loads.get, default=0): the first key, in
\* insertion order, whose load no key undercuts; 0 for an empty dict
LeastLoaded(order, loads) ==
    IF Len(order) = 0 THEN 0
    ELSE LET i == CHOOSE k \in 1..Len(order) :
                      /\ \A j \in 1..Len(order) :
                             loads[order[k]] <= loads[order[j]]
                      /\ \A j \in 1..(k - 1) :
                             loads[order[j]] > loads[order[k]]
         IN  order[i]

\* the handler without its `if not client:` check
NoClient_Unchecked(index) == FALSE

\* `if not client:` after client = multi_clients.get(index)
NoClient(index) == index \notin multi_clients

(* ------------------------------ handler ------------------------------- *)

\* stream_handler / stream_media up to `await client.get_messages(...)`
Select(r, h, m) ==
    /\ phase = "serving" /\ pc[r] = "idle"
    /\ LET index == LeastLoaded(work_loads_order, work_loads)
       IN  /\ req' = [req EXCEPT ![r] =
                         [range_header |-> h, msg_id |-> m, index |-> index]]
           /\ IF NoClient(index)
              THEN /\ resp' = [resp EXCEPT ![r] =
                                  [NoResponse EXCEPT
                                      !.raised = "HTTPException503",
                                      !.status = 503]]
                   /\ pc' = [pc EXCEPT ![r] = "error"]
                   /\ UNCHANGED class_cache
              ELSE /\ class_cache' = class_cache \cup {index}
                   /\ pc' = [pc EXCEPT ![r] = "get_messages"]
                   /\ UNCHANGED resp
    /\ UNCHANGED <<impl, phase, next_token, media, pool, media_sessions,
                   create_calls, gen>>

\* get_messages returns or raises; the handler runs to its response
get_messages_return(r) ==
    /\ pc[r] = "get_messages"
    /\ \E got \in {"message", "raise"} :
           LET a == Respond(impl, req[r].range_header, got, req[r].msg_id,
                            media)
           IN  /\ resp' = [resp EXCEPT ![r] = a]
               /\ pc' = [pc EXCEPT ![r] =
                            IF a.raised = "none" THEN "body" ELSE "error"]
    /\ UNCHANGED <<impl, phase, next_token, media, pool, class_cache,
                   media_sessions, create_calls, req, gen>>

(* ----------------------- ByteStreamer.yield_file ---------------------- *)

\* what upload.GetFile(offset, limit=chunk_size) holds when served in full
FullChunk(offset, file_size) ==
    <<offset, offset + Max(0, Min(chunk_size, file_size - offset))>>

\* chunk[a:b] for 0 <= a, 0 <= b
Slice(chunk, a, b) ==
    LET n == chunk[2] - chunk[1]
        lo == chunk[1] + Min(a, n)
        hi == chunk[1] + Min(b, n)
    IN  IF hi < lo THEN <<lo, lo>> ELSE <<lo, hi>>

\* the buffer yielded for the chunk of part current_part
Piece(chunk, plan, current_part) ==
    IF plan.part_count = 1
    THEN Slice(chunk, plan.first_part_cut, plan.last_part_cut)
    ELSE IF current_part = 1
    THEN Slice(chunk, plan.first_part_cut, chunk[2] - chunk[1])
    ELSE IF current_part = plan.part_count
    THEN Slice(chunk, 0, plan.last_part_cut)
    ELSE chunk

RECURSIVE BytesOf(_)
BytesOf(pieces) ==
    IF Len(pieces) = 0 THEN 0
    ELSE (Head(pieces)[2] - Head(pieces)[1]) + BytesOf(Tail(pieces))

\* `=+` written for `+=`: the counter is assigned the delta
AdjustLoad_Assign(loads, index, delta) ==
    [loads EXCEPT ![index] = delta]

\* an adjustment that would touch the counter of every session
AdjustLoad_All(loads, index, delta) ==
    [k \in DOMAIN loads |-> loads[k] + delta]

\* work_loads[index] += delta
AdjustLoad(loads, index, delta) ==
    [loads EXCEPT ![index] = loads[index] + delta]

\* a finally clause that would give the slot back twice
Release_Twice(loads, index) == AdjustLoad(loads, index, 0 - 2)

\* finally: work_loads[index] -= 1
Release(loads, index) == AdjustLoad(loads, index, 0 - 1)

\* a loop test that would admit one iteration past part_count
LoopTop_OneMore(r, frame, loads) ==
    IF frame.current_part <= resp[r].plan.part_count + 1
    THEN /\ pc' = [pc EXCEPT ![r] = "fetching"]
         /\ gen' = [gen EXCEPT ![r] = frame]
         /\ work_loads' = loads
    ELSE /\ pc' = [pc EXCEPT ![r] = "exhausted"]
         /\ gen' = [gen EXCEPT ![r] =
                       [frame EXCEPT !.exit_from = "loop"]]
         /\ work_loads' = Release(loads, req[r].index)

\* `while current_part <= part_count:` decides between the next GetFile and
\* leaving the loop through the finally clause
LoopTop(r, frame, loads) ==
    IF frame.current_part <= resp[r].plan.part_count
    THEN /\ pc' = [pc EXCEPT ![r] = "fetching"]
         /\ gen' = [gen EXCEPT ![r] = frame]
         /\ work_loads' = loads
    ELSE /\ pc' = [pc EXCEPT ![r] = "exhausted"]
         /\ gen' = [gen EXCEPT ![r] =
                       [frame EXCEPT !.exit_from = "loop"]]
         /\ work_loads' = Release(loads, req[r].index)

\* a first frame that would start fetching at the beginning of the file
FirstPart_FromZero(r, session, before) ==
    [NoFrame EXCEPT !.media_session = session,
                    !.current_part = 1,
                    !.load_before = before]

\* the frame at `current_part = 1`, with the media session in hand
FirstPart(r, session, before) ==
    [NoFrame EXCEPT !.media_session = session,
                    !.offset = resp[r].plan.offset,
                    !.current_part = 1,
                    !.load_before = before]

\* first iteration of the body: work_loads[index] += 1, the media session
\* lookup and, when it is cached or local, the way to the first GetFile
yield_file_start(r) ==
    /\ pc[r] = "body"
    /\ LET index == req[r].index
           loads == AdjustLoad(work_loads, index, 1)
           cached == media_sessions[index][media.dc_id]
       IN  IF cached.kind # "none"
           THEN /\ LoopTop(r, FirstPart(r, cached, work_loads[index]), loads)
                /\ UNCHANGED <<media_sessions, create_calls>>
           ELSE IF media.dc_id # HomeDC
           THEN /\ pc' = [pc EXCEPT ![r] = "creating"]
                /\ gen' = [gen EXCEPT ![r] =
                              [NoFrame EXCEPT
                                  !.media_session =
                                      [kind |-> "creating",
                                       n |-> create_calls + 1],
                                  !.load_before = work_loads[index]]]
                /\ work_loads' = loads
                /\ create_calls' = create_calls + 1
                /\ UNCHANGED media_sessions
           ELSE /\ media_sessions' =
                       [media_sessions EXCEPT
                           ![index][media.dc_id] = MainSession]
                /\ LoopTop(r, FirstPart(r, MainSession, work_loads[index]),
                           loads)
                /\ UNCHANGED create_calls
    /\ UNCHANGED <<impl, phase, next_token, media, multi_clients,
                   work_loads_order, class_cache, req, resp>>

\* the session creation awaited before the try block returns the session
\* of this call (the n-th created) or raises
create_media_session_return(r) ==
    /\ pc[r] = "creating"
    /\ \E created \in BOOLEAN :
           IF created
           THEN LET session == [kind |-> "media",
                                n |-> gen[r].media_session.n]
                IN  /\ media_sessions' =
                           [media_sessions EXCEPT
                               ![req[r].index][media.dc_id] = session]
                    /\ LoopTop(r, FirstPart(r, session,
                                            gen[r].load_before),
                               work_loads)
           ELSE /\ pc' = [pc EXCEPT ![r] = "failed"]
                /\ gen' = [gen EXCEPT ![r].exit_from = "creating"]
                /\ UNCHANGED <<media_sessions, work_loads>>
    /\ UNCHANGED <<impl, phase, next_token, media, multi_clients,
                   work_loads_order, class_cache, create_calls, req, resp>>

\* outcomes of one GetFile: the chunk in full, a shorter chunk, an empty
\* chunk, a result that is no upload.File, an exception
FetchOutcomes == {"full", "short", "empty", "not_file", "raise"}

Served(out, offset, file_size) ==
    LET full == FullChunk(offset, file_size)
    IN  IF out = "full" THEN full
        ELSE IF out = "short" THEN <<offset, offset + 1>>
        ELSE <<offset, offset>>

\* `r = await media_session.send(GetFile(...))` returns or raises
get_file_return(r) ==
    /\ pc[r] = "fetching"
    /\ \E out \in FetchOutcomes :
           LET f == gen[r]
               full == FullChunk(f.offset, media.file_size)
               chunk == Served(out, f.offset, media.file_size)
               fetched == Append(f.fetched,
                                 [offset |-> f.offset, chunk |-> chunk])
           IN  /\ out = "short" => full[2] - full[1] > 1
               /\ IF out = "raise"
                  THEN /\ pc' = [pc EXCEPT ![r] = "failed"]
                       /\ gen' = [gen EXCEPT ![r] =
                                     [f EXCEPT !.exit_from = "fetching"]]
                       /\ work_loads' = Release(work_loads, req[r].index)
                  ELSE IF out = "not_file" \/ chunk[2] = chunk[1]
                  THEN /\ pc' = [pc EXCEPT ![r] = "end_of_data"]
                       /\ gen' = [gen EXCEPT ![r] =
                                     [f EXCEPT
                                         !.exit_from = "fetching",
                                         !.all_full =
                                             f.all_full /\ out = "full",
                                         !.fetched = fetched]]
                       /\ work_loads' = Release(work_loads, req[r].index)
                  ELSE /\ pc' = [pc EXCEPT ![r] = "yielded"]
                       /\ gen' = [gen EXCEPT ![r] =
                                     [f EXCEPT
                                         !.all_full =
                                             f.all_full /\ out = "full",
                                         !.fetched = fetched,
                                         !.yielded =
                                             Append(f.yielded,
                                                    Piece(chunk,
                                                          resp[r].plan,
                                                          f.current_part))]]
                       /\ UNCHANGED work_loads
    /\ UNCHANGED <<impl, phase, next_token, media, multi_clients,
                   work_loads_order, class_cache, media_sessions,
                   create_calls, req, resp>>

\* the consumer asks for the next buffer: current_part += 1;
\* offset += chunk_size; back to the loop test
consumer_next(r) ==
    /\ pc[r] = "yielded"
    /\ LoopTop(r, [gen[r] EXCEPT !.current_part = gen[r].current_part + 1,
                                 !.offset = gen[r].offset + chunk_size],
               work_loads)
    /\ UNCHANGED <<impl, phase, next_token, media, multi_clients,
                   work_loads_order, class_cache, media_sessions,
                   create_calls, req, resp>>

\* whether the generator is inside `try:` when suspended at position p
InsideTry(p) == p \in {"fetching", "yielded"}

\* the consumer is cancelled / the generator closed at a suspension point
cancel(r) ==
    /\ pc[r] \in {"creating", "fetching", "yielded"}
    /\ pc' = [pc EXCEPT ![r] = "cancelled"]
    /\ gen' = [gen EXCEPT ![r].exit_from = pc[r]]
    /\ work_loads' = IF InsideTry(pc[r])
                     THEN Release(work_loads, req[r].index)
                     ELSE work_loads
    /\ UNCHANGED <<impl, phase, next_token, media, multi_clients,
                   work_loads_order, class_cache, media_sessions,
                   create_calls, req, resp>>

(* --------------------------- specifications --------------------------- *)

\* Range headers around the chunk boundaries, the open-ended ones, the
\* example of the specification, an empty header and malformed ones
RangeHeaders ==
    {NoRange, Header(<<>>), RangeHeader(500000, 1500000),
     Header(BytesEq \o <<"-", "5">>),
     Header(BytesEq \o <<"1", "-", "2", "-", "3">>),
     Header(BytesEq \o <<"a", "-", "5">>),
     Header(BytesEq \o <<"0", "-", "z">>)}
        \cup {RangeHeader(a, b) : a, b \in Positions(MaxChunks)}
        \cup {OpenRangeHeader(a) : a \in Positions(MaxChunks)}

Init == InitWith(FileSizes(MaxChunks))

Startup ==
    \/ initialize_clients
    \/ start_client
    \/ main
    \/ serve_app

stream_handler(r) ==
    \E h \in RangeHeaders : \E m \in MsgIds : Select(r, h, m)

\* one request at a time, every header of RangeHeaders
Next ==
    \/ Startup
    \/ stream_handler(1)
    \/ get_messages_return(1)
    \/ yield_file_start(1)
    \/ create_media_session_return(1)
    \/ get_file_return(1)
    \/ consumer_next(1)
    \/ cancel(1)

Spec == Init /\ [][Next]_vars

\* Spec with the progress the event loop and the proviso of a reading
\* consumer give: an awaited backend call that has completed resumes its
\* coroutine, and the server keeps iterating a response body.  Nothing
\* obliges a request to arrive or a consumer to cancel.
SpecFair ==
    /\ Init
    /\ [][Next]_vars
    /\ WF_vars(get_messages_return(1))
    /\ WF_vars(yield_file_start(1))
    /\ WF_vars(create_media_session_return(1))
    /\ WF_vars(get_file_return(1))
    /\ WF_vars(consumer_next(1))

\* headers and file of the concurrent requests
ConcHeaders == {OpenRangeHeader(1)}

InitConc == InitWith({chunk_size + 1})

\* requests are numbered in their order of arrival
Arrived(r) == IF r = 1 THEN TRUE ELSE pc[r - 1] # "idle"

concurrent_handler(r) ==
    /\ Arrived(r)
    /\ \E h \in ConcHeaders : \E m \in MsgIds : Select(r, h, m)

\* NumRequests requests interleaved at their suspension points
NextConc ==
    \/ Startup
    \/ \E r \in Requests :
           \/ concurrent_handler(r)
           \/ get_messages_return(r)
           \/ yield_file_start(r)
           \/ create_media_session_return(r)
           \/ get_file_return(r)
           \/ consumer_next(r)
           \/ cancel(r)

SpecConc == InitConc /\ [][NextConc]_vars

(* ------------------------------- claims ------------------------------- *)

\* the handler of request r has produced its response
Responded(r) == pc[r] \notin {"idle", "get_messages"}

\* request r named the media message, on a registered session, and
\* get_messages returned it
MediaFound(r) ==
    /\ Responded(r)
    /\ req[r].msg_id = "media"
    /\ resp[r].raised \notin {"HTTPException503", "RPCError"}

\* the handler answered request r with a streaming response
Success(r) == Responded(r) /\ resp[r].raised = "none"

\* the numbers a well-formed header of request r names
Parsed(r) == ParseRangeText(req[r].range_header.text, media.file_size)

WellFormed(r) ==
    /\ MediaFound(r)
    /\ Truthy(req[r].range_header)
    /\ Parsed(r).raised = "none"

\* C1: for every request with 0 <= start <= end < fileSize whose stream ran
\* to exhaustion with every chunk served in full, the bytes yielded number
\* end - start + 1, the announced Content-Length.
C1_FullStreamLength ==
    \A r \in Requests :
        (/\ pc[r] = "exhausted"
         /\ gen[r].all_full
         /\ 0 <= resp[r].from_bytes
         /\ resp[r].from_bytes <= resp[r].until_bytes
         /\ resp[r].until_bytes < media.file_size)
        => /\ BytesOf(gen[r].yielded)
                  = resp[r].until_bytes - resp[r].from_bytes + 1
           /\ BytesOf(gen[r].yielded) = resp[r].content_length

\* C2: a request without a Range header for an existing media object on a
\* registered session gets status 200 for the bytes 0 .. fileSize - 1, and
\* its full stream yields exactly fileSize bytes.
C2_NoRangeIsFull ==
    \A r \in Requests :
        (MediaFound(r) /\ ~req[r].range_header.given)
        => /\ resp[r].status = 200
           /\ resp[r].from_bytes = 0
           /\ resp[r].until_bytes = media.file_size - 1
           /\ (pc[r] = "exhausted" /\ gen[r].all_full)
                  => BytesOf(gen[r].yielded) = media.file_size

\* C3: a request whose parsed range has start < 0 or end >= fileSize is
\* answered 416 and no byte of a body is produced for it.
C3_Unsatisfiable416 ==
    \A r \in Requests :
        (/\ WellFormed(r)
         /\ (Parsed(r).from_bytes < 0
                \/ Parsed(r).until_bytes >= media.file_size))
        => /\ resp[r].status = 416
           /\ gen[r].yielded = <<>>

\* C4: after a stream ends by exhaustion, by early end-of-data or by
\* cancellation at any of its suspension points, the load counter of its
\* session is back at the value it had before the stream started.
C4_LoadRestored ==
    \A r \in Requests :
        pc[r] \in {"exhausted", "end_of_data", "cancelled"}
        => work_loads[req[r].index] = gen[r].load_before

\* C5: with at least one session registered, the selection of a handler
\* picks a registered session whose counter no registered session undercuts
\* at that moment, the lowest identifier among those tied at the minimum.
C5_LeastLoadedSelected ==
    [][\A r \in Requests :
          (pc[r] = "idle" /\ pc'[r] # "idle" /\ multi_clients # {})
          => LET i == req'[r].index
             IN  /\ i \in multi_clients
                 /\ \A j \in multi_clients :
                        /\ work_loads[i] <= work_loads[j]
                        /\ work_loads[j] = work_loads[i] => i <= j]_vars

\* a request was placed on session 2 while session 0 was loaded and the
\* auxiliary client 1 had failed to start
C5_Witness ==
    /\ 1 \notin multi_clients
    /\ 2 \in multi_clients
    /\ work_loads[0] = 1
    /\ pc[2] = "get_messages"
    /\ req[2].index = 2

\* C6: with no session registered, every request is answered 503 and its
\* handling changes no load counter and issues no backend call.
C6_EmptyPool503 ==
    \A r \in Requests :
        (pc[r] # "idle" /\ multi_clients = {})
        => /\ pc[r] = "error"
           /\ resp[r].status = 503
           /\ gen[r] = NoFrame
           /\ create_calls = 0
           /\ DOMAIN work_loads = {}
           /\ class_cache = {}

C6_Witness ==
    /\ multi_clients = {}
    /\ pc[1] = "error"
    /\ resp[1].status = 503

\* C7: a request whose header "bytes=<from>-<until>" names a range with
\* fromByte > untilByte (0 <= untilByte < fromByte, untilByte < fileSize)
\* gets no success status and no stream.
C7_InvertedRangeRejected ==
    \A r \in Requests :
        (/\ WellFormed(r)
         /\ req[r].range_header =
                RangeHeader(Parsed(r).from_bytes, Parsed(r).until_bytes)
         /\ Parsed(r).from_bytes > Parsed(r).until_bytes
         /\ 0 <= Parsed(r).until_bytes
         /\ Parsed(r).until_bytes < media.file_size)
        => /\ resp[r].status \notin {200, 206}
           /\ pc[r] = "error"

\* the failure class of a failed request, from what the request met: no
\* session, a message that is missing or has no media, anything else
FailureClass(r) ==
    IF req[r].index \notin multi_clients THEN "pool_unavailable"
    ELSE IF resp[r].raised # "RPCError" /\ req[r].msg_id \in {"text", "deleted"}
    THEN "not_found"
    ELSE "unexpected"

ClassStatus(class) ==
    IF class = "not_found" THEN 404
    ELSE IF class = "pool_unavailable" THEN 503
    ELSE 500

\* C8: a failed request gets the status of its failure class: 404 for a
\* missing message or one without media, 503 for no session, 500 for any
\* other failure raised while the response is prepared; so no class is
\* reported under the status of another.
C8_StatusByFailureClass ==
    \A r \in Requests :
        (Responded(r) /\ ~Success(r))
        => /\ pc[r] = "error"
           /\ resp[r].status = ClassStatus(FailureClass(r))

C8_Witness ==
    /\ pc[1] = "error"
    /\ req[1].msg_id = "deleted"
    /\ req[1].index \in multi_clients
    /\ resp[1].status = 404

C10_WholeChunksPlan ==
    \A r \in Requests :
        (/\ impl = "webserver"
         /\ MediaFound(r)
         /\ ~req[r].range_header.given
         /\ media.file_size >= chunk_size
         /\ media.file_size % chunk_size = 0)
        => LET n == media.file_size \div chunk_size
           IN  /\ Success(r)
               /\ resp[r].plan = [offset |-> 0, first_part_cut |-> 0,
                                  last_part_cut |-> chunk_size,
                                  part_count |-> n]
               /\ Len(gen[r].fetched) <= n
               /\ (pc[r] = "exhausted" /\ gen[r].all_full)
                      => /\ Len(gen[r].fetched) = n
                         /\ Len(gen[r].yielded) = n
                         /\ \A i \in 1..n :
                                /\ gen[r].fetched[i].chunk =
                                       <<(i - 1) * chunk_size,
                                         i * chunk_size>>
                                /\ gen[r].yielded[i] =
                                       gen[r].fetched[i].chunk
                         /\ BytesOf(gen[r].yielded) = media.file_size

\* the no-range stream of a file of three whole chunks ran to its end
C10_Witness ==
    /\ impl = "webserver"
    /\ pc[1] = "exhausted"
    /\ gen[1].all_full
    /\ ~req[1].range_header.given
    /\ media.file_size = 3 * chunk_size
    /\ Len(gen[1].yielded) = 3

\* C11: for a satisfiable range whose start lies in one chunk and whose end
\* lies in the next, the plan has partCount 2, firstCut = start - offset and
\* lastCut = (end mod chunkSize) + 1; a stream served in full fetches the
\* chunks at offset and offset + chunkSize, yields the first from firstCut
\* on and the second up to lastCut, end - start + 1 bytes in total.
C11_TwoChunkRange ==
    \A r \in Requests :
        (/\ Success(r)
         /\ 0 <= resp[r].from_bytes
         /\ resp[r].until_bytes < media.file_size
         /\ (resp[r].until_bytes \div chunk_size)
                = (resp[r].from_bytes \div chunk_size) + 1)
        => LET a == resp[r].from_bytes
               b == resp[r].until_bytes
               off == (a \div chunk_size) * chunk_size
               plan == resp[r].plan
           IN  /\ plan.offset = off
               /\ plan.part_count = 2
               /\ plan.first_part_cut = a - off
               /\ plan.last_part_cut = (b % chunk_size) + 1
               /\ (pc[r] = "exhausted" /\ gen[r].all_full)
                      => /\ Len(gen[r].fetched) = 2
                         /\ gen[r].fetched[1].offset = off
                         /\ gen[r].fetched[2].offset = off + chunk_size
                         /\ gen[r].yielded =
                                <<<<a, off + chunk_size>>,
                                  <<off + chunk_size, b + 1>>>>
                         /\ BytesOf(gen[r].yielded) = b - a + 1

\* C12: in every reachable state, whatever the interleaving of concurrent
\* streams that complete, end early, fail or are cancelled, the load counter
\* of every registered session is at least 0.
C12_LoadNonNegative ==
    \A i \in DOMAIN work_loads : work_loads[i] >= 0

\* one stream has given its slot back while another still holds one on the
\* same session
C12_Witness ==
    /\ pc[1] \in {"exhausted", "end_of_data", "failed", "cancelled"}
    /\ gen[1].exit_from # "creating"
    /\ pc[2] \in {"fetching", "yielded"}
    /\ req[1].index = req[2].index
    /\ work_loads[req[2].index] = 1

\* the step of request r in which its stream claims its session, the step
\* in which the finally clause gives it back, and the step of a stream with
\* nothing to fetch, which does both without suspending in between
Claims(r) == pc[r] = "body" /\ pc'[r] \in {"creating", "fetching"}

Releases(r) ==
    \/ /\ pc[r] \in {"fetching", "yielded"}
       /\ pc'[r] \in {"exhausted", "end_of_data", "failed", "cancelled"}
    \/ pc[r] = "creating" /\ pc'[r] = "exhausted"

ClaimsAndReleases(r) == pc[r] = "body" /\ pc'[r] = "exhausted"

\* C13: the step in which a stream claims its session raises that session's
\* load counter by exactly 1 and leaves every other counter, the set of
\* registered sessions and the streamer cache unchanged; the release step
\* lowers the same counter by exactly 1 and changes nothing else of these.
C13_ClaimReleaseFrame ==
    [][\A r \in Requests :
          LET i == req[r].index
          IN  /\ Claims(r) =>
                     /\ work_loads' =
                            [work_loads EXCEPT ![i] = work_loads[i] + 1]
                     /\ multi_clients' = multi_clients
                     /\ class_cache' = class_cache
              /\ Releases(r) =>
                     /\ work_loads' =
                            [work_loads EXCEPT ![i] = work_loads[i] - 1]
                     /\ multi_clients' = multi_clients
                     /\ class_cache' = class_cache
              /\ ClaimsAndReleases(r) =>
                     /\ work_loads' = work_loads
                     /\ multi_clients' = multi_clients
                     /\ class_cache' = class_cache]_vars

\* with two sessions registered, one stream has claimed and released
\* session 0 while another holds session 1
C13_Witness ==
    /\ pc[1] = "exhausted"
    /\ pc[2] = "fetching"
    /\ req[1].index = 0
    /\ req[2].index = 1
    /\ work_loads = (0 :> 0 @@ 1 :> 1)

\* C14: when a started stream fails with an unexpected error at any step
\* after the increment (acquiring the cross-datacenter session, building the
\* location, fetching a chunk), the counter is still decremented: once the
\* stream has failed, the counter equals its value before the request.
C14_ErrorRestoresLoad ==
    \A r \in Requests :
        pc[r] = "failed"
            => work_loads[req[r].index] = gen[r].load_before

\* request r has run its increment and not run its release: its stream is
\* suspended at one of its awaits or at a yield, or it left yield_file
\* before the try block and never releases
Held(r) ==
    \/ pc[r] \in {"creating", "fetching", "yielded"}
    \/ pc[r] \in {"failed", "cancelled"} /\ gen[r].exit_from = "creating"

HeldOn(i) == {r \in Requests : Held(r) /\ req[r].index = i}

\* C15: increments and decrements are atomic, no update is lost: whatever
\* the number of concurrent streams on a session and the interleaving of
\* their steps, while k streams are between their increment and their
\* release the counter is its initial value (0) plus k, and it is the
\* initial value once all have released.
C15_NoLostUpdate ==
    \A i \in DOMAIN work_loads :
        work_loads[i] = Cardinality(HeldOn(i))

\* two streams hold the same session at once
C15_Witness ==
    /\ pc[1] = "yielded"
    /\ pc[2] = "fetching"
    /\ req[1].index = req[2].index
    /\ work_loads[req[1].index] = 2

\* the creations of a media session on session i that are pending or have
\* returned a session, by call number (a creation that raised or was
\* abandoned is not counted)
CreationsOn(i) ==
    {gen[r].media_session.n :
        r \in {q \in Requests :
                  /\ req[q].index = i
                  /\ \/ pc[q] = "creating"
                     \/ gen[q].media_session.kind = "media"}}

\* C16: per (pool session, datacenter) pair the media session is cached for
\* the life of the process: under any interleaving of concurrent streams the
\* creation of a media session is invoked at most once per pair, and a
\* cached entry is never replaced by another session, so all streams of a
\* pair hold the same one.
C16_MediaSessionCreatedOnce ==
    \A i \in ClientIds :
        /\ Cardinality(CreationsOn(i)) <= 1
        /\ \A r \in Requests :
               (/\ req[r].index = i
                /\ gen[r].media_session.kind = "media")
               => media_sessions[i][media.dc_id] = gen[r].media_session

\* C17: if, before partCount iterations have completed, a fetch returns an
\* empty chunk or a chunk shorter than chunkSize, the stream stops early
\* without an error: no fetch is issued after that chunk.
C17_ShortChunkStops ==
    \A r \in Requests :
        \A i \in 1..Len(gen[r].fetched) :
            LET chunk == gen[r].fetched[i].chunk
            IN  (/\ i < resp[r].plan.part_count
                 /\ chunk[2] - chunk[1] < chunk_size)
                => /\ Len(gen[r].fetched) = i
                   /\ pc[r] \notin {"fetching", "failed"}

\* C18: the i-th fetch of a stream (i = 0, 1, ...) is at offset
\* plan.offset + i * chunkSize, so chunks are fetched and buffers yielded in
\* strictly ascending offset order; a chunk is fetched only when the consumer
\* asks for the next buffer, so at no time is more than one chunk fetched
\* and not yet yielded.
C18_AscendingOneAhead ==
    \A r \in Requests :
        LET f == gen[r]
            at(i) == resp[r].plan.offset + (i - 1) * chunk_size
        IN  /\ \A i \in 1..Len(f.fetched) : f.fetched[i].offset = at(i)
            /\ \A i \in 1..Len(f.yielded) :
                   /\ at(i) <= f.yielded[i][1]
                   /\ f.yielded[i][2] <= at(i) + chunk_size
            /\ Len(f.yielded) <= Len(f.fetched)
            /\ Len(f.fetched) - Len(f.yielded) <= 1
            /\ pc[r] = "fetching" =>
                   /\ Len(f.fetched) = Len(f.yielded)
                   /\ f.offset = at(Len(f.fetched) + 1)

\* a stream on a plan that starts past the first chunk has fetched its
\* second chunk and yielded it
C18_Witness ==
    /\ pc[1] = "yielded"
    /\ resp[1].plan.offset > 0
    /\ Len(gen[1].fetched) = 2
    /\ Len(gen[1].yielded) = 2

\* the range of request r, taken from its header or defaulted, is one the
\* handler's test turns down: it ends at or past the end of the file or
\* starts below 0
FailsValidation(r) ==
    /\ MediaFound(r)
    /\ LET rng == ParseRange(impl, req[r].range_header, media.file_size)
       IN  /\ rng.raised = "none"
           /\ \/ rng.until_bytes >= media.file_size
              \/ rng.from_bytes < 0

\* C19: range validation precedes streaming: for every request that fails
\* validation or is rejected with 404 or 503, when the error response is
\* produced and ever after no chunk fetch has been issued, no media session
\* creation invoked and no load counter changed for that request: its body
\* generator never starts.
C19_RejectedBeforeStreaming ==
    \A r \in Requests :
        (/\ Responded(r)
         /\ FailsValidation(r) \/ resp[r].status \in {404, 503})
        => /\ pc[r] = "error"
           /\ gen[r] = NoFrame
           /\ create_calls = 0
           /\ \A i \in DOMAIN work_loads : work_loads[i] = 0

\* a request for a range past the end of the file has been turned down
C19_Witness ==
    /\ pc[1] = "error"
    /\ FailsValidation(1)
    /\ resp[1].raised = "HTTPException416"
    /\ resp[1].until_bytes >= media.file_size

\* C20: every plan handed to the streamer, for every request that passes
\* the handler's validation, whatever the file size and with or without a
\* Range header, has 0 <= firstCut < chunkSize, 0 < lastCut <= chunkSize and
\* partCount >= 1.
C20_PlanWithinBounds ==
    \A r \in Requests :
        Success(r)
        => LET plan == resp[r].plan
           IN  /\ 0 <= plan.first_part_cut
               /\ plan.first_part_cut < chunk_size
               /\ 0 < plan.last_part_cut
               /\ plan.last_part_cut <= chunk_size
               /\ plan.part_count >= 1

\* the body generator of request r is suspended at an await or at a yield
Started(r) == pc[r] \in {"creating", "fetching", "yielded"}

\* the chunk fetches request r has issued: the part being fetched, or the
\* chunks received
FetchesIssued(r) ==
    IF pc[r] = "fetching" THEN gen[r].current_part
    ELSE Len(gen[r].fetched)

\* C21: every stream is finite: provided each backend call returns and the
\* consumer keeps reading, a started stream issues at most partCount chunk
\* fetches, never a (partCount + 1)-th, and eventually terminates; a stream
\* that ended by exhaustion or end-of-data has run its release step, so the
\* counter is back at its value before the stream.
C21_StreamFinite ==
    /\ [](\A r \in Requests :
              \/ FetchesIssued(r) <= resp[r].plan.part_count
              \/ FetchesIssued(r) = 0)
    /\ \A r \in Requests :
           Started(r) ~>
               \/ /\ pc[r] \in {"exhausted", "end_of_data"}
                  /\ work_loads[req[r].index] = gen[r].load_before
               \/ pc[r] \in {"failed", "cancelled"}

\* a stream of three parts has fetched three chunks, left its loop and
\* given its slot back
C21_Witness ==
    /\ pc[1] = "exhausted"
    /\ resp[1].plan.part_count = 3
    /\ Len(gen[1].fetched) = 3
    /\ work_loads[req[1].index] = gen[1].load_before

\* C22: least-loaded placement survives the gap between selection and
\* claim: in the step in which a stream increments the counter of the
\* session selected for its request, that counter is, before the
\* increment, still no higher than the counter of any registered session,
\* whatever the interleaving of concurrent requests.
C22_LeastLoadedAtClaim ==
    [][\A r \in Requests :
          (Claims(r) \/ ClaimsAndReleases(r))
          => \A j \in multi_clients :
                 work_loads[req[r].index] <= work_loads[j]]_vars

====
